---- MODULE Spec2Model ----
(***************************************************************************)
(* A model of the DFU bootloader (src/src/dfu.rs, src/src/main.rs): the    *)
(* DFU class state machine (control_in / control_out), the deferred flash  *)
(* work (process_flash) and the boot-flags store, driven by a host that    *)
(* sends class requests and by the USB interrupt that runs process_flash.  *)
(***************************************************************************)
EXTENDS Integers, Sequences, FiniteSets, TLC

----------------------------------------------------------------------------
(* Program constants *)

PAGE_START == 134236160        \* 0x08004800
BL_FLAGS_HIGH == 134347776     \* 0x0801fc00
BL_FLAGS_LOW == 134282240      \* 0x0800fc00
BL_MAGIC == << 57005, 51966 >>  \* 0xdeadcafe, as the half-words (0xdead, 0xcafe)
BIGGEST_PAGE == 2048
PAGE_1K == 1024                \* 0x400
PAGE_2K == 2048                \* 0x800
POLL_BUSY_MS == 500
HALF == 65536                  \* 2^16: a u32 is kept as << high half, low half >>

DFU_DETACH == 0
DFU_DNLOAD == 1
DFU_UPLOAD == 2
DFU_GETSTATUS == 3
DFU_CLRSTATUS == 4
DFU_GETSTATE == 5
DFU_ABORT == 6

(* enum DfuState, in declaration order: `state as u8` is the position - 1 *)
DfuStateNames ==
    << "AppIdle", "AppDetach", "DfuIdle", "DfuDnloadSync", "DfuDnloadBusy",
       "DfuDnloadIdle", "DfuManifestSync", "DfuManifest",
       "DfuManifestWaitReset", "DfuUploadIdle", "DfuError" >>

(* enum DfuDeviceStatus, in declaration order *)
DfuStatusNames ==
    << "Ok", "ErrTarget", "ErrFile", "ErrWrite", "ErrErase", "ErrCheckErased",
       "ErrProg", "ErrVerify", "ErrAddress", "ErrNotDone", "ErrFirmware",
       "ErrVendor", "ErrUsbR", "ErrPoR", "ErrUnknown", "ErrStaledPkt" >>

IndexOf(seq, x) == CHOOSE i \in 1..Len(seq) : seq[i] = x

StateCode(s) == IndexOf(DfuStateNames, s) - 1

StatusCode(s) == IndexOf(DfuStatusNames, s) - 1

----------------------------------------------------------------------------
(* Bounds of the model *)

MaxExtra == 256          \* the host sends no payload that would take the bytes
                         \* committed and staged (or, when counted, accepted)
                         \* further than this beyond one page
MaxManifests == 1        \* the host requests no manifest after this many commits

\* payload lengths the host uses for DNLOAD: wTransferSize (256 bytes), and a
\* short transfer that is not a multiple of the word size
FULL_LEN == 256
SHORT_LEN == FULL_LEN - 1
Lens == {SHORT_LEN, FULL_LEN}

\* values of the flash-size register (KiB) of the parts considered
FlashSizes == {64, 128, 256}

\* what the words read beyond the BlFlags struct (and its padding) may hold
Junk == {<< 0, 0 >>}

----------------------------------------------------------------------------
(* Flash driver *)

ERASED == << HALF - 1, HALF - 1 >>   \* an erased flash word reads 0xFFFFFFFF

(* n as u32, for 0 <= n < 2^31; write_word splits a word the same way *)
ToWord(n) == << (n \div HALF) % HALF, n % HALF >>

(* w + 1 in u32 arithmetic (wrapping) *)
Inc32(w) ==
    IF w[2] = HALF - 1 THEN << (w[1] + 1) % HALF, 0 >> ELSE << w[1], w[2] + 1 >>

FLAG_WORDS == 16         \* size_of::<BlFlags>() words are handed to write_word

ErasedPage == [i \in 1..FLAG_WORDS |-> ERASED]

(* get_flash_pg_size: r is the low half of the word at FLASH_PAGESIZE *)
get_flash_pg_size(r) == IF r > 128 THEN PAGE_2K ELSE PAGE_1K

PageBase(addr, ps) == addr - (addr % ps)

(* The flash controller and the two boot-flags pages.
   locked: FLASH_CR.LOCK; eop, pgerr, wrprterr: FLASH_SR bits;
   hi, lo: the first FLAG_WORDS words at BL_FLAGS_HIGH and BL_FLAGS_LOW;
   has_high: the part has a page at BL_FLAGS_HIGH; size: flash-size register;
   log: the erase and program operations started since the log was cleared *)
unlock_flash(f) == [f EXCEPT !.locked = FALSE]

lock_flash(f) == [f EXCEPT !.locked = TRUE]

LogOp(f, op, addr, n) ==
    Append(f.log, [op |-> op, addr |-> addr, n |-> n, locked |-> f.locked])

(* erase_page: a locked controller ignores the request; a page the part does
   not have raises PGERR; otherwise the page is erased and EOP is set *)
erase_page(f, addr) ==
    LET ps == get_flash_pg_size(f.size)
        g == [f EXCEPT !.log = LogOp(f, "erase", addr, 0)]
    IN  IF f.locked THEN g
        ELSE IF PageBase(addr, ps) = PageBase(BL_FLAGS_HIGH, ps)
        THEN IF f.has_high
             THEN [g EXCEPT !.hi = ErasedPage, !.eop = TRUE]
             ELSE [g EXCEPT !.pgerr = TRUE]
        ELSE IF PageBase(addr, ps) = PageBase(BL_FLAGS_LOW, ps)
        THEN [g EXCEPT !.lo = ErasedPage, !.eop = TRUE]
        ELSE [g EXCEPT !.eop = TRUE]

\* write_word giving up after the second attempt
write_word_two_tries(verify) ==
    IF verify[1] THEN "Ok"
    ELSE IF verify[2] THEN "Ok"
    ELSE "Err"

(* write_word: up to three program-and-verify attempts; verify[k] tells
   whether the read-back of attempt k equals the data *)
write_word(verify) ==
    IF verify[1] THEN "Ok"
    ELSE IF verify[2] THEN "Ok"
    ELSE IF verify[3] THEN "Ok"
    ELSE "Err"

(* the passes write_word makes through its loop `for _ in 0..3`: it returns
   from the first pass whose read-back equals the data *)
Attempts(verify) ==
    IF verify[1] THEN 1
    ELSE IF verify[2] THEN 2
    ELSE 3

VerifyPatterns == [1..3 -> BOOLEAN]

\* the verify outcomes the flash shows for the word it may fail
VerifyChoices == {<< TRUE, TRUE, TRUE >>, << FALSE, FALSE, TRUE >>,
                  << FALSE, FALSE, FALSE >>}

(* One half-word pair programmed into a flags page: the controller programs
   only an erased word, and only when unlocked; the word at position bad is
   one the flash fails to program *)
ProgramWord(f, cur, data, isBad) ==
    IF f.locked \/ isBad \/ cur # ERASED THEN cur ELSE data

----------------------------------------------------------------------------
(* Boot flags store *)

Layouts == {"declared", "aligned"}

BoolByte(b) == IF b THEN 1 ELSE 0

(* The memory image of a BlFlags value: 16 bytes, the two bools one byte each
   followed by two padding bytes; the compiler either keeps the declared field
   order or moves user_code_length before the bools *)
StructWords(flags, layout, pad) ==
    LET bools == << pad, BoolByte(flags.user_code_legit)
                         + 256 * BoolByte(flags.user_code_present) >>
    IN  IF layout = "declared"
        THEN << flags.magic, flags.flash_count, bools, flags.user_code_length >>
        ELSE << flags.magic, flags.flash_count, flags.user_code_length, bools >>

(* BlFlags::as_u32_slice: size_of::<BlFlags>() = 16 is used as the number of
   words, so the slice runs 12 words past the struct *)
as_u32_slice(flags, layout, junk) ==
    StructWords(flags, layout, junk[2]) \o [i \in 1..(FLAG_WORDS - 4) |-> junk]

(* the BlFlags value a reference to a flags page reads *)
Deref(page, layout) ==
    LET bools == IF layout = "declared" THEN page[3] ELSE page[4]
        len == IF layout = "declared" THEN page[4] ELSE page[3]
    IN  [magic |-> page[1], flash_count |-> page[2],
         user_code_legit |-> bools[2] % 256,
         user_code_present |-> (bools[2] \div 256) % 256,
         user_code_length |-> len]

(* write_bl_flags::_write: word after word, results ignored *)
_write(f, where, words, bad) ==
    LET page == IF where = "High" THEN f.hi ELSE f.lo
        addr == IF where = "High" THEN BL_FLAGS_HIGH ELSE BL_FLAGS_LOW
        new == [i \in 1..FLAG_WORDS |-> ProgramWord(f, page[i], words[i], i = bad)]
        g == [f EXCEPT !.log = LogOp(f, "prog", addr, FLAG_WORDS)]
    IN  IF where = "High" THEN [g EXCEPT !.hi = new] ELSE [g EXCEPT !.lo = new]

write_bl_flags(f, words, bad) ==
    LET e == erase_page(f, BL_FLAGS_HIGH)
    IN  IF e.wrprterr \/ e.pgerr \/ ~e.eop
        THEN _write(erase_page(e, BL_FLAGS_LOW), "Low", words, bad)
        ELSE _write(e, "High", words, bad)

(* read_bl_flags: where the reference returned points, or "None" *)
read_bl_flags(f) ==
    IF f.hi[1] = BL_MAGIC THEN "High"
    ELSE IF f.lo[1] = BL_MAGIC THEN "Low"
    ELSE "None"

FlagsAt(f, ptr, layout) ==
    IF ptr = "High" THEN Deref(f.hi, layout) ELSE Deref(f.lo, layout)

\* jump_to_usercode jumping whenever a record is found
jump_to_usercode_any(f, layout) ==
    IF read_bl_flags(f) = "None" THEN "returns" ELSE "jumps"

(* jump_to_usercode: branches to the application when read_bl_flags finds a
   record whose user_code_present is true, and returns otherwise *)
jump_to_usercode(f, layout) ==
    LET ptr == read_bl_flags(f)
    IN  IF ptr = "None" THEN "returns"
        ELSE IF FlagsAt(f, ptr, layout).user_code_present = BoolByte(TRUE)
        THEN "jumps"
        ELSE "returns"

(* check_sw_int: the SFTRSTF bit of RCC_CSR *)
check_sw_int(sftrstf) == sftrstf

(* the entry decision of init: what runs once init is over, the application
   ("App") or the bootloader's USB loop ("Dfu") *)
init(pc14_high, sftrstf, f, layout) ==
    IF ~(pc14_high \/ check_sw_int(sftrstf))
    THEN IF jump_to_usercode(f, layout) = "jumps" THEN "App" ELSE "Dfu"
    ELSE "Dfu"

----------------------------------------------------------------------------
(* DFU class *)

(* Dfu::new; the page buffer's bytes are not modelled, only its fill index *)
NewDfu(f, download_capable) ==
    [ upload_capable |-> FALSE,
      download_capable |-> download_capable,
      state |-> "DfuIdle",
      status |-> "Ok",
      firmware_size |-> 0,
      awaits_flash |-> FALSE,
      flashing |-> FALSE,
      manifesting |-> FALSE,
      page_buffer_index |-> 0,
      flags |-> read_bl_flags(f) ]

NoXfer == [res |-> "none", data |-> << >>]
Accept == [res |-> "accept", data |-> << >>]
Reject == [res |-> "reject", data |-> << >>]

(* control_in::accept_status: the six bytes of the GET_STATUS reply *)
accept_status(c, wait_time_ms) ==
    [res |-> "accept",
     data |-> << StatusCode(c.status),
                 wait_time_ms % 256,
                 (wait_time_ms \div 256) % 256,
                 (wait_time_ms \div 65536) % 256,
                 StateCode(c.state),
                 0 >>]

\* get_status whose DfuDnloadSync arm does not look at awaits_flash
get_status_unlatched(d) ==
    CASE d.state = "DfuDnloadSync" ->
            LET e == [d EXCEPT !.state = "DfuDnloadIdle", !.status = "Ok"]
            IN  [d |-> e, xfer |-> accept_status(e, 0)]
      [] d.state = "DfuDnloadBusy" ->
            LET e == [d EXCEPT !.state = "DfuDnloadSync"]
            IN  [d |-> e, xfer |-> accept_status(e, POLL_BUSY_MS)]
      [] d.state = "DfuManifest" ->
            IF d.manifesting
            THEN [d |-> d, xfer |-> accept_status(d, POLL_BUSY_MS)]
            ELSE LET e == [d EXCEPT !.state = "DfuManifestSync"]
                 IN  [d |-> e, xfer |-> accept_status(e, 0)]
      [] d.state = "DfuManifestSync" ->
            LET e == [d EXCEPT !.state = "DfuIdle"]
            IN  [d |-> e, xfer |-> accept_status(e, 0)]
      [] OTHER -> [d |-> d, xfer |-> accept_status(d, 0)]

(* the DFU_GETSTATUS arm of control_in *)
get_status(d) ==
    CASE d.state = "DfuDnloadSync" ->
            LET e == [d EXCEPT !.state = IF d.awaits_flash THEN "DfuDnloadBusy"
                                         ELSE "DfuDnloadIdle",
                               !.status = "Ok"]
            IN  [d |-> e, xfer |-> accept_status(e, 0)]
      [] d.state = "DfuDnloadBusy" ->
            LET e == [d EXCEPT !.state = "DfuDnloadSync"]
            IN  [d |-> e, xfer |-> accept_status(e, POLL_BUSY_MS)]
      [] d.state = "DfuManifest" ->
            IF d.manifesting
            THEN [d |-> d, xfer |-> accept_status(d, POLL_BUSY_MS)]
            ELSE LET e == [d EXCEPT !.state = "DfuManifestSync"]
                 IN  [d |-> e, xfer |-> accept_status(e, 0)]
      [] d.state = "DfuManifestSync" ->
            LET e == [d EXCEPT !.state = "DfuIdle"]
            IN  [d |-> e, xfer |-> accept_status(e, 0)]
      [] OTHER -> [d |-> d, xfer |-> accept_status(d, 0)]

\* pre_dispatch without the match on the status
pre_dispatch_unforced(d) ==
    IF d.state = "DfuDnloadBusy" /\ ~d.awaits_flash
    THEN [d EXCEPT !.state = "DfuDnloadSync"]
    ELSE d

(* the two adjustments control_in makes before it dispatches *)
pre_dispatch(d) ==
    LET e == IF d.status # "Ok" THEN [d EXCEPT !.state = "DfuError"] ELSE d
    IN  IF e.state = "DfuDnloadBusy" /\ ~e.awaits_flash
        THEN [e EXCEPT !.state = "DfuDnloadSync"]
        ELSE e

\* the `_` arm rejecting the transfer but leaving the state as it was
stall_quiet(d) ==
    [d |-> [d EXCEPT !.status = "ErrStaledPkt"], xfer |-> Reject]

(* the `_` arm of control_in and of control_out *)
stall(d) ==
    [d |-> [d EXCEPT !.state = "DfuError", !.status = "ErrStaledPkt"],
     xfer |-> Reject]

control_in(d, req) ==
    IF ~req.addressed THEN [d |-> d, xfer |-> NoXfer]
    ELSE LET e == pre_dispatch(d)
         IN  IF req.request = DFU_UPLOAD /\ req.value = 0 /\ req.length > 0
                /\ e.upload_capable
             THEN [d |-> e, xfer |-> NoXfer]
             ELSE IF req.request = DFU_GETSTATUS /\ req.value = 0 /\ req.length = 6
             THEN get_status(e)
             ELSE IF req.request = DFU_GETSTATE /\ req.value = 0 /\ req.length = 1
             THEN [d |-> e, xfer |-> [res |-> "accept",
                                      data |-> << StateCode(e.state) >>]]
             ELSE stall(e)

\* dnload with the full-page test made against the buffer's capacity instead
\* of the part's page size
dnload_capacity(d, f, len) ==
    IF d.state \in {"DfuIdle", "DfuDnloadIdle"}
    THEN LET g == unlock_flash(f)
             start == d.page_buffer_index
         IN  IF start + len > BIGGEST_PAGE
             THEN [d |-> d, f |-> g, xfer |-> NoXfer, panic |-> TRUE, copied |-> 0]
             ELSE [d |-> [d EXCEPT !.page_buffer_index = start + len,
                                   !.awaits_flash =
                                       IF start + len = BIGGEST_PAGE THEN TRUE ELSE @,
                                   !.state = "DfuDnloadSync"],
                   f |-> g, xfer |-> Accept, panic |-> FALSE, copied |-> len]
    ELSE [d |-> d, f |-> f, xfer |-> Reject, panic |-> FALSE, copied |-> 0]

\* dnload erasing the page the payload is for as soon as it is accepted
dnload_erasing(d, f, len) ==
    IF d.state \in {"DfuIdle", "DfuDnloadIdle"}
    THEN LET g == erase_page(unlock_flash(f), PAGE_START + d.firmware_size)
             start == d.page_buffer_index
             page_size == get_flash_pg_size(f.size)
         IN  IF start + len > BIGGEST_PAGE
             THEN [d |-> d, f |-> g, xfer |-> NoXfer, panic |-> TRUE, copied |-> 0]
             ELSE [d |-> [d EXCEPT !.page_buffer_index = start + len,
                                   !.awaits_flash =
                                       IF start + len = page_size THEN TRUE ELSE @,
                                   !.state = "DfuDnloadSync"],
                   f |-> g, xfer |-> Accept, panic |-> FALSE, copied |-> len]
    ELSE [d |-> d, f |-> f, xfer |-> Reject, panic |-> FALSE, copied |-> 0]

\* dnload without the match on the state: the payload is taken in every state
dnload_unguarded(d, f, len) ==
    LET g == unlock_flash(f)
        start == d.page_buffer_index
    IN  IF start + len > BIGGEST_PAGE
        THEN [d |-> d, f |-> g, xfer |-> NoXfer, panic |-> TRUE, copied |-> 0]
        ELSE [d |-> [d EXCEPT !.page_buffer_index = start + len,
                              !.awaits_flash =
                                  IF start + len = get_flash_pg_size(f.size)
                                  THEN TRUE ELSE @,
                              !.state = "DfuDnloadSync"],
              f |-> g, xfer |-> Accept, panic |-> FALSE, copied |-> len]

(* the DFU_DNLOAD arm of control_out with req.length > 0; len is
   xfer.data().len().  The slice page_buffer[start..start+len] panics when it
   runs past the BIGGEST_PAGE bytes of the buffer (panic_halt stops the
   device).  copied is the number of bytes copy_from_slice stores into
   page_buffer: the bytes themselves are not kept, only that the buffer was
   written *)
dnload(d, f, len) ==
    IF d.state \in {"DfuIdle", "DfuDnloadIdle"}
    THEN LET g == unlock_flash(f)
             start == d.page_buffer_index
             page_size == get_flash_pg_size(f.size)
         IN  IF start + len > BIGGEST_PAGE
             THEN [d |-> d, f |-> g, xfer |-> NoXfer, panic |-> TRUE, copied |-> 0]
             ELSE [d |-> [d EXCEPT !.page_buffer_index = start + len,
                                   !.awaits_flash =
                                       IF start + len = page_size THEN TRUE ELSE @,
                                   !.state = "DfuDnloadSync"],
                   f |-> g, xfer |-> Accept, panic |-> FALSE, copied |-> len]
    ELSE [d |-> d, f |-> f, xfer |-> Reject, panic |-> FALSE, copied |-> 0]

(* the DFU_DNLOAD arm of control_out with req.length = 0 *)
dnload_zero(d) ==
    [d EXCEPT !.state = "DfuManifest", !.manifesting = TRUE, !.awaits_flash = TRUE]

\* clrstatus without the match on DfuError: cleared from every state
clrstatus_ungated(d) ==
    [d |-> [d EXCEPT !.state = "DfuIdle", !.status = "Ok"], xfer |-> Accept]

(* the DFU_CLRSTATUS arm of control_out *)
clrstatus(d) ==
    IF d.state = "DfuError"
    THEN [d |-> [d EXCEPT !.state = "DfuIdle", !.status = "Ok"], xfer |-> Accept]
    ELSE [d |-> d, xfer |-> Reject]

\* abort without the match on DfuIdle
abort_ungated(d) ==
    [d |-> [d EXCEPT !.status = "Ok"], xfer |-> Accept]

(* the DFU_ABORT arm of control_out *)
abort(d) ==
    IF d.state = "DfuIdle"
    THEN [d |-> [d EXCEPT !.status = "Ok"], xfer |-> Accept]
    ELSE [d |-> d, xfer |-> Reject]

WithFlash(r, f) ==
    [d |-> r.d, f |-> f, xfer |-> r.xfer, panic |-> FALSE, copied |-> 0]

control_out(d, f, req) ==
    IF ~req.addressed THEN WithFlash([d |-> d, xfer |-> NoXfer], f)
    ELSE IF req.request = DFU_DNLOAD /\ d.download_capable
    THEN IF req.length > 0
         THEN dnload(d, f, req.length)
         ELSE WithFlash([d |-> dnload_zero(d), xfer |-> Accept], f)
    ELSE IF req.request = DFU_CLRSTATUS /\ req.value = 0 /\ req.length = 0
    THEN WithFlash(clrstatus(d), f)
    ELSE IF req.request = DFU_ABORT /\ req.value = 0 /\ req.length = 0
    THEN WithFlash(abort(d), f)
    ELSE WithFlash(stall(d), f)

(* UsbClass::reset, the callback the USB stack runs on a bus reset: the impl
   of UsbClass for Dfu defines no reset, so the trait's empty default runs *)
reset(d) == d

\* flush_page leaving flashing set when a word write fails
flush_page_stuck(d, f, env) ==
    LET addr == PAGE_START + d.firmware_size
        e == erase_page(f, addr)
        n == d.page_buffer_index \div 4
        fails == env.at < n /\ write_word(env.verify) = "Err"
        tried == IF fails THEN env.at + 1 ELSE n
        g == IF tried > 0 THEN [e EXCEPT !.log = LogOp(e, "prog", addr, tried)]
             ELSE e
        st == IF fails THEN "ErrWrite"
              ELSE IF n > 0 THEN "Ok" ELSE d.status
    IN  IF fails
        THEN [d |-> [d EXCEPT !.status = st, !.page_buffer_index = 0,
                              !.awaits_flash = FALSE],
              f |-> g, rec |-> << >>]
        ELSE [d |-> [d EXCEPT !.status = st,
                              !.firmware_size = @ + d.page_buffer_index,
                              !.page_buffer_index = 0,
                              !.awaits_flash = FALSE, !.flashing = FALSE],
              f |-> g, rec |-> << >>]

(* process_flash, first branch: erase the page at PAGE_START + firmware_size
   and program page_buffer_index / 4 words.  env.at is the index of the one
   word whose verifies follow env.verify; every other word verifies at once *)
flush_page(d, f, env) ==
    LET addr == PAGE_START + d.firmware_size
        e == erase_page(f, addr)
        n == d.page_buffer_index \div 4
        fails == env.at < n /\ write_word(env.verify) = "Err"
        tried == IF fails THEN env.at + 1 ELSE n
        g == IF tried > 0 THEN [e EXCEPT !.log = LogOp(e, "prog", addr, tried)]
             ELSE e
        (* every word written Ok sets status = Ok *)
        st == IF fails THEN "ErrWrite"
              ELSE IF n > 0 THEN "Ok" ELSE d.status
    IN  IF fails
        THEN [d |-> [d EXCEPT !.status = st, !.page_buffer_index = 0,
                              !.awaits_flash = FALSE, !.flashing = FALSE],
              f |-> g, rec |-> << >>]
        ELSE [d |-> [d EXCEPT !.status = st,
                              !.firmware_size = @ + d.page_buffer_index,
                              !.page_buffer_index = 0,
                              !.awaits_flash = FALSE, !.flashing = FALSE],
              f |-> g, rec |-> << >>]

(* process_flash, second branch: build the new record, write it, re-read,
   lock the flash *)
manifest(d, f, env) ==
    LET flash_count == IF d.flags = "None" THEN ToWord(1)
                       ELSE Inc32(FlagsAt(f, d.flags, env.layout).flash_count)
        flags == [magic |-> BL_MAGIC,
                  flash_count |-> flash_count,
                  user_code_legit |-> TRUE,
                  user_code_present |-> TRUE,
                  user_code_length |-> ToWord(d.firmware_size)]
        g == write_bl_flags(f, as_u32_slice(flags, env.layout, env.junk), env.bad)
    IN  [d |-> [d EXCEPT !.flags = read_bl_flags(g),
                         !.manifesting = FALSE, !.flashing = FALSE],
         f |-> lock_flash(g), rec |-> << flags >>]

(* each branch sets flashing before its work *)
process_flash(d, f, env) ==
    IF d.awaits_flash /\ ~d.flashing
    THEN flush_page([d EXCEPT !.flashing = TRUE], f, env)
    ELSE IF d.manifesting /\ ~d.flashing
    THEN manifest([d EXCEPT !.flashing = TRUE], f, env)
    ELSE [d |-> d, f |-> f, rec |-> << >>]

----------------------------------------------------------------------------
(* The system: the DFU class instance, the flash, and the host *)

VARIABLES
    dfu,        \* the Dfu struct
    flash,      \* the flash controller and the boot-flags pages
    layout,     \* the field order the build gave BlFlags
    xfer,       \* how the operation that ran last answered its control transfer
    panicked,   \* the device has halted in panic_halt
    op,         \* the operation that ran last
    written,    \* the record the last manifest handed to write_bl_flags
    counting,   \* whether the bytes the host sends are counted
    accepted,   \* payload bytes accepted by DNLOAD in this session, when counted
    committed,  \* bytes process_flash has added to firmware_size since the
                \* session began (boot, a completed manifest, or a CLRSTATUS
                \* after an error), when counted
    short_sent, \* the host has sent its short transfer
    page_sum,   \* payload bytes accepted since the staging buffer was last flushed
    manifests,  \* manifests committed since boot
    full,       \* a DNLOAD has filled the staging buffer and no flush has run since
    hs,         \* progress of the GET_STATUS handshake observed by the host
    call        \* a call of a flash-driver function made on its own: its
                \* arguments, what the flash shows it, and its result

vars == << dfu, flash, layout, xfer, panicked, op, written, counting,
           accepted, committed, short_sent, page_sum, manifests, full, hs,
           call >>

page_size == get_flash_pg_size(flash.size)

\* copied: the bytes the operation stored into page_buffer
Op(kind, len, copied) ==
    [kind |-> kind, len |-> len, copied |-> copied, branch |-> "none",
     failed |-> FALSE]

(* the flash of a fresh device after reset: controller locked, status
   register clear, both flags pages erased; parts of 64 KiB have no page at
   BL_FLAGS_HIGH *)
InitFlash(size) ==
    [ locked |-> TRUE, eop |-> FALSE, pgerr |-> FALSE, wrprterr |-> FALSE,
      size |-> size, has_high |-> size >= 128,
      hi |-> ErasedPage, lo |-> ErasedPage, log |-> << >> ]

\* the field order of the build
BuildLayout == "aligned"

\* no driver function is called on its own
NoCall == [fn |-> "none"]

(* main.rs init: Dfu::new(.., true, tx), then DFU mode is entered *)
Device(sizes, count) ==
    /\ layout = BuildLayout
    /\ counting = count
    /\ \E size \in sizes : flash = InitFlash(size)
    /\ dfu = NewDfu(flash, TRUE)
    /\ xfer = NoXfer
    /\ panicked = FALSE
    /\ op = Op("boot", 0, 0)
    /\ written = << >>
    /\ accepted = 0
    /\ committed = 0
    /\ short_sent = FALSE
    /\ page_sum = 0
    /\ manifests = 0
    /\ full = FALSE
    /\ hs = 0

Boot(sizes, count) == Device(sizes, count) /\ call = NoCall

Init == Boot(FlashSizes, FALSE)

ClearLog(f) == [f EXCEPT !.log = << >>]

Req(request, value, length) ==
    [addressed |-> TRUE, request |-> request, value |-> value, length |-> length]

(* the handshake the host observes: 1 and 2 after the first and the second
   GET_STATUS from DfuDnloadSync with awaits_flash set (for a staged page, no
   manifest requested) and status Ok, 3 after
   a process_flash that then programmed the page, 4 after the next GET_STATUS *)
HsAfterGetStatus ==
    IF dfu.state = "DfuDnloadSync" /\ dfu.awaits_flash /\ ~dfu.manifesting
       /\ dfu.status = "Ok"
    THEN 1
    ELSE IF hs = 1 THEN 2
    ELSE IF hs = 3 THEN 4
    ELSE 0

ControlIn(req, kind) ==
    /\ ~panicked
    /\ LET r == control_in(dfu, req)
       IN  /\ dfu' = r.d
           /\ xfer' = r.xfer
    /\ flash' = ClearLog(flash)
    /\ op' = Op(kind, 0, 0)
    /\ hs' = IF kind = "GETSTATUS" THEN HsAfterGetStatus ELSE 0
    /\ committed' = IF counting /\ dfu.state = "DfuManifestSync"
                        /\ dfu'.state = "DfuIdle"
                     THEN 0 ELSE committed
    /\ UNCHANGED << layout, panicked, written, counting, accepted,
                    short_sent, page_sum, manifests, full, call >>

GetStatus == ControlIn(Req(DFU_GETSTATUS, 0, 6), "GETSTATUS")

GetState == ControlIn(Req(DFU_GETSTATE, 0, 1), "GETSTATE")

(* recognised requests control_in does not serve: UPLOAD, a GET_STATUS of the
   wrong length *)
OtherIn ==
    \E req \in {Req(DFU_UPLOAD, 0, 256), Req(DFU_GETSTATUS, 0, 1)} :
        ControlIn(req, "OTHER_IN")

\* a request number the class does not know
UNKNOWN_REQUEST == 7

UnknownIn == ControlIn(Req(UNKNOWN_REQUEST, 0, 0), "UNKNOWN_IN")

ControlOut(req, kind) ==
    /\ ~panicked
    /\ LET r == control_out(dfu, ClearLog(flash), req)
           ok == r.xfer.res = "accept"
           data == kind = "DNLOAD" /\ req.length > 0
       IN  /\ dfu' = r.d
           /\ flash' = r.f
           /\ xfer' = r.xfer
           /\ panicked' = r.panic
           /\ accepted' = IF counting /\ ok /\ data THEN accepted + req.length
                          ELSE accepted
           /\ short_sent' = IF ok /\ data /\ req.length < FULL_LEN THEN TRUE
                            ELSE short_sent
           /\ committed' = IF counting /\ ok /\ kind = "CLRSTATUS" THEN 0
                           ELSE committed
           /\ page_sum' = IF ok /\ data THEN page_sum + req.length ELSE page_sum
           /\ full' = IF ok /\ data /\ r.d.awaits_flash
                         /\ r.d.page_buffer_index = page_size
                      THEN TRUE ELSE full
           /\ op' = Op(kind, IF kind = "DNLOAD" THEN req.length ELSE 0, r.copied)
    /\ hs' = 0
    /\ UNCHANGED << layout, counting, written, manifests, call >>

Dnload ==
    \E len \in Lens :
        /\ dfu.firmware_size + dfu.page_buffer_index + len <= page_size + MaxExtra
        /\ counting => accepted + len <= page_size + MaxExtra
        /\ len < FULL_LEN => ~short_sent
        /\ ControlOut(Req(DFU_DNLOAD, 0, len), "DNLOAD")

DnloadZero ==
    /\ manifests < MaxManifests
    /\ ControlOut(Req(DFU_DNLOAD, 0, 0), "DNLOAD")

ClrStatus == ControlOut(Req(DFU_CLRSTATUS, 0, 0), "CLRSTATUS")

Abort == ControlOut(Req(DFU_ABORT, 0, 0), "ABORT")

(* recognised requests control_out does not serve: DETACH, a CLRSTATUS with a
   non-zero wValue *)
OtherOut ==
    \E req \in {Req(DFU_DETACH, 0, 0), Req(DFU_CLRSTATUS, 1, 0)} :
        ControlOut(req, "OTHER_OUT")

UnknownOut == ControlOut(Req(UNKNOWN_REQUEST, 0, 0), "UNKNOWN_OUT")

(* a class request for another interface reaches both handlers *)
NotAddressed ==
    \/ ControlIn([Req(DFU_GETSTATUS, 0, 6) EXCEPT !.addressed = FALSE], "FOREIGN")
    \/ ControlOut([Req(DFU_DNLOAD, 0, 0) EXCEPT !.addressed = FALSE], "FOREIGN")

(* a USB bus reset: the stack runs the reset callback of the class; the poll
   that sees the reset reports no transfer, so process_flash does not run *)
BusReset ==
    /\ ~panicked
    /\ dfu' = reset(dfu)
    /\ flash' = ClearLog(flash)
    /\ xfer' = NoXfer
    /\ op' = Op("BUS_RESET", 0, 0)
    /\ hs' = 0
    /\ UNCHANGED << layout, panicked, written, counting, accepted, committed,
                    short_sent, page_sum, manifests, full, call >>

\* index of the staged word whose verifies may fail; position of the flags
\* word the flash may fail to program (0: none)
FailAts == {2}
BadWords == {0}

(* usb_poll: process_flash after a poll that reported a transfer *)
ProcessFlash ==
    /\ ~panicked
    /\ \E at \in FailAts, verify \in VerifyChoices, bad \in BadWords, junk \in Junk :
          LET env == [at |-> at, verify |-> verify, bad |-> bad, junk |-> junk,
                      layout |-> layout]
              r == process_flash(dfu, ClearLog(flash), env)
              branch == IF dfu.awaits_flash /\ ~dfu.flashing THEN "flush"
                        ELSE IF dfu.manifesting /\ ~dfu.flashing THEN "manifest"
                        ELSE "none"
              failed == branch = "flush" /\ r.d.status = "ErrWrite"
                        /\ r.d.firmware_size = dfu.firmware_size
                        /\ env.at < dfu.page_buffer_index \div 4
                        /\ write_word(verify) = "Err"
          IN  /\ dfu' = r.d
              /\ flash' = r.f
              /\ op' = [kind |-> "PROCESS_FLASH", len |-> 0, copied |-> 0,
                        branch |-> branch, failed |-> failed]
              /\ written' = IF branch = "manifest" THEN r.rec ELSE written
              /\ accepted' = IF branch = "manifest" THEN 0 ELSE accepted
              /\ committed' = IF counting
                               THEN committed + r.d.firmware_size - dfu.firmware_size
                               ELSE committed
              /\ page_sum' = IF branch = "flush" THEN 0 ELSE page_sum
              /\ manifests' = IF branch = "manifest" THEN manifests + 1 ELSE manifests
              /\ full' = IF branch = "flush" THEN FALSE ELSE full
              /\ hs' = IF hs = 2 /\ branch = "flush" /\ ~failed THEN 3 ELSE 0
    /\ xfer' = NoXfer
    /\ UNCHANGED << layout, counting, panicked, short_sent, call >>

Next ==
    \/ GetStatus
    \/ GetState
    \/ OtherIn
    \/ UnknownIn
    \/ Dnload
    \/ DnloadZero
    \/ ClrStatus
    \/ Abort
    \/ OtherOut
    \/ UnknownOut
    \/ NotAddressed
    \/ BusReset
    \/ ProcessFlash

Spec == Init /\ [][Next]_vars

(* one part, with the bytes the host sends counted *)
InitSession == Boot({128}, TRUE)

SpecSession == InitSession /\ [][Next]_vars

(* the parts whose pages are 1 KiB, with and without a page at BL_FLAGS_HIGH *)
Init1K == Boot({s \in FlashSizes : get_flash_pg_size(s) = PAGE_1K}, FALSE)

Spec1K == Init1K /\ [][Next]_vars

(* a host that, once it has requested a manifest, only polls GET_STATUS until
   the device has reported the end of the manifest; process_flash runs after
   every poll that saw a transfer, and the host keeps polling *)
ManifestPending ==
    dfu.manifesting \/ dfu.state \in {"DfuManifest", "DfuManifestSync"}

NextPolling ==
    \/ ~ManifestPending /\ Next
    \/ ManifestPending /\ (GetStatus \/ ProcessFlash)

SpecPolling ==
    /\ Init1K
    /\ [][NextPolling]_vars
    /\ WF_vars(ProcessFlash)
    /\ WF_vars(GetStatus)

----------------------------------------------------------------------------
(* The flash driver on its own: write_word called with a word to program,
   against a flash that shows a read-back after each attempt *)

\* words written and read back: zero, the magic, an erased word
WordValues == {ToWord(0), BL_MAGIC, ERASED}

InitDriver ==
    /\ Device({128}, FALSE)
    /\ \E data \in WordValues, reads \in [1..3 -> WordValues] :
          call = [fn |-> "write_word", data |-> data, reads |-> reads,
                  done |-> FALSE, res |-> "none", attempts |-> 0]

WriteWord ==
    /\ call.fn = "write_word" /\ ~call.done
    /\ LET verify == [k \in 1..3 |-> call.reads[k] = call.data]
       IN  call' = [call EXCEPT !.done = TRUE,
                                !.res = write_word(verify),
                                !.attempts = Attempts(verify)]
    /\ UNCHANGED << dfu, flash, layout, xfer, panicked, op, written, counting,
                    accepted, committed, short_sent, page_sum, manifests, full,
                    hs >>

NextDriver == WriteWord

SpecDriver == InitDriver /\ [][NextDriver]_vars

----------------------------------------------------------------------------
(* The entry decision on its own: init run on a device whose flags pages hold
   what an earlier run, or the application, left there *)

\* the records a flags page may hold: with the magic or with a zero first
\* word, each flag either way
StoredRecords ==
    [magic : {BL_MAGIC, ToWord(0)}, flash_count : {ToWord(1)},
     user_code_legit : BOOLEAN, user_code_present : BOOLEAN,
     user_code_length : {ToWord(PAGE_1K)}]

\* the contents of a flags page: erased, or one record in the build's layout
StoredPages ==
    {ErasedPage} \cup
    {as_u32_slice(r, BuildLayout, ToWord(0)) : r \in StoredRecords}

InitEntry ==
    /\ layout = BuildLayout
    /\ counting = FALSE
    /\ \E size \in {s \in FlashSizes : get_flash_pg_size(s) = PAGE_1K},
          hi \in StoredPages, lo \in StoredPages :
          /\ InitFlash(size).has_high \/ hi = ErasedPage
          /\ flash = [InitFlash(size) EXCEPT !.hi = hi, !.lo = lo]
    /\ dfu = NewDfu(flash, TRUE)
    /\ xfer = NoXfer
    /\ panicked = FALSE
    /\ op = Op("boot", 0, 0)
    /\ written = << >>
    /\ accepted = 0
    /\ committed = 0
    /\ short_sent = FALSE
    /\ page_sum = 0
    /\ manifests = 0
    /\ full = FALSE
    /\ hs = 0
    /\ \E pc14_high \in BOOLEAN, sftrstf \in BOOLEAN :
          call = [fn |-> "init", pc14_high |-> pc14_high, sftrstf |-> sftrstf,
                  done |-> FALSE, mode |-> "none"]

BootEntry ==
    /\ call.fn = "init" /\ ~call.done
    /\ call' = [call EXCEPT !.done = TRUE,
                            !.mode = init(call.pc14_high, call.sftrstf, flash,
                                          layout)]
    /\ UNCHANGED << dfu, flash, layout, xfer, panicked, op, written, counting,
                    accepted, committed, short_sent, page_sum, manifests, full,
                    hs >>

NextEntry == BootEntry

SpecEntry == InitEntry /\ [][NextEntry]_vars

----------------------------------------------------------------------------
(* What the operation that ran last was, and what it answered *)

\* bStatus, bState and bwPollTimeout (24 bits, little-endian) of a GET_STATUS
\* reply
ReplyStatus(x) == x.data[1]
ReplyState(x) == x.data[5]
ReplyPoll(x) == x.data[2] + 256 * x.data[3] + 65536 * x.data[4]

\* the step handles a DNLOAD with payload and accepts it
DnloadAccepted ==
    op'.kind = "DNLOAD" /\ op'.len > 0 /\ xfer'.res = "accept"
    /\ dfu'.page_buffer_index # dfu.page_buffer_index

\* the step handles a DNLOAD with wLength = 0
ZeroDnloadStep == op'.kind = "DNLOAD" /\ op'.len = 0 /\ xfer'.res = "accept"

\* the step is a process_flash that takes the named branch
FlashStep(branch) == op'.kind = "PROCESS_FLASH" /\ op'.branch = branch

----------------------------------------------------------------------------
(* Properties *)

(* C1: from DfuDnloadSync with awaits_flash set and status Ok, two GET_STATUS
   handled before process_flash are answered (DnloadBusy, 500 ms) and then
   (DnloadSync, 0 ms); after a process_flash that programmed the page, the
   next GET_STATUS is answered (DnloadIdle, 0 ms). *)
C1_Handshake ==
    /\ hs = 1 => /\ ReplyState(xfer) = StateCode("DfuDnloadBusy")
                 /\ ReplyPoll(xfer) = 500
    /\ hs = 2 => /\ ReplyState(xfer) = StateCode("DfuDnloadSync")
                 /\ ReplyPoll(xfer) = 0
    /\ hs = 4 => /\ ReplyState(xfer) = StateCode("DfuDnloadIdle")
                 /\ ReplyPoll(xfer) = 0

(* C2: once a DNLOAD has filled the staging buffer, no further DNLOAD with
   payload is accepted before process_flash has flushed that buffer. *)
C2_FlushBeforeNextDnload == [][full => ~DnloadAccepted]_vars

(* C3: a DNLOAD with wLength = 0 drives the state to DfuManifest, and the
   record process_flash then writes has the magic, both flags true,
   flash_count one more than the record read before (1 if there was none)
   and user_code_length equal to the payload bytes accepted in the session. *)
C3_ManifestRecord ==
    [][ /\ ZeroDnloadStep => dfu'.state = "DfuManifest"
        /\ FlashStep("manifest") /\ manifests' = manifests + 1 =>
              written' = << [magic |-> BL_MAGIC,
                             flash_count |->
                                 IF dfu.flags = "None" THEN ToWord(1)
                                 ELSE Inc32(FlagsAt(flash, dfu.flags, layout).flash_count),
                             user_code_legit |-> TRUE,
                             user_code_present |-> TRUE,
                             user_code_length |-> ToWord(accepted)] >> ]_vars

(* C4: when the accepted DNLOAD payloads since the last flush sum to exactly
   the page size, awaits_flash is set and the state is DfuDnloadSync; the
   process_flash that follows, all words written, advances firmware_size by
   exactly the page size and leaves page_buffer_index = 0. *)
C4_PageAccumulation ==
    [][ /\ DnloadAccepted /\ page_sum' = page_size =>
              dfu'.awaits_flash /\ dfu'.state = "DfuDnloadSync"
        /\ FlashStep("flush") /\ ~op'.failed /\ page_sum = page_size =>
              /\ dfu'.firmware_size = dfu.firmware_size + page_size
              /\ dfu'.page_buffer_index = 0 ]_vars

\* a full page has been staged and process_flash has programmed it
C4_Witness ==
    /\ op.kind = "PROCESS_FLASH" /\ op.branch = "flush" /\ ~op.failed
    /\ dfu.firmware_size = page_size
    /\ dfu.page_buffer_index = 0
    /\ ~dfu.awaits_flash

(* C5: when a word write fails inside process_flash, on return status is
   ErrWrite, page_buffer_index is 0, the three latches are clear and
   firmware_size is what it was. *)
C5_WriteFailure ==
    [][ FlashStep("flush") /\ op'.failed =>
          /\ dfu'.status = "ErrWrite"
          /\ dfu'.page_buffer_index = 0
          /\ ~dfu'.awaits_flash /\ ~dfu'.flashing /\ ~dfu'.manifesting
          /\ dfu'.firmware_size = dfu.firmware_size ]_vars

(* C6: between operations, awaits_flash implies state is DfuDnloadSync or
   DfuDnloadBusy. *)
C6_AwaitsFlashState ==
    dfu.awaits_flash => dfu.state \in {"DfuDnloadSync", "DfuDnloadBusy"}

(* C7: between operations, manifesting implies state = DfuManifest. *)
C7_ManifestingState == dfu.manifesting => dfu.state = "DfuManifest"

\* the first address past the application region: the boot-flags page
AppEnd == IF flash.has_high THEN BL_FLAGS_HIGH ELSE BL_FLAGS_LOW

(* C8: firmware_size is a multiple of 4 and PAGE_START + firmware_size does
   not run past the application region. *)
C8_FirmwareSize ==
    /\ dfu.firmware_size % 4 = 0
    /\ PAGE_START + dfu.firmware_size <= AppEnd

(* C9: 0 <= page_buffer_index <= page size, whatever the payload lengths. *)
C9_BufferIndex ==
    0 <= dfu.page_buffer_index /\ dfu.page_buffer_index <= page_size

(* C10: a CLRSTATUS (wValue = 0, wLength = 0) is accepted exactly when state
   is DfuError; accepted, it leaves state DfuIdle and status Ok; otherwise it
   is rejected and changes neither state nor status. *)
C10_ClrStatusGating ==
    [][ op'.kind = "CLRSTATUS" =>
          /\ xfer'.res = (IF dfu.state = "DfuError" THEN "accept" ELSE "reject")
          /\ xfer'.res = "accept" =>
                dfu'.state = "DfuIdle" /\ dfu'.status = "Ok"
          /\ xfer'.res = "reject" =>
                dfu'.state = dfu.state /\ dfu'.status = dfu.status ]_vars

\* a CLRSTATUS has just been accepted from DfuError
C10_Witness ==
    /\ op.kind = "CLRSTATUS" /\ xfer.res = "accept"
    /\ dfu.state = "DfuIdle" /\ dfu.status = "Ok"

\* the states the class is in when a DNLOAD with payload is turned down
NoDnloadStates ==
    {s \in {DfuStateNames[i] : i \in 1..Len(DfuStateNames)} :
        s \notin {"DfuIdle", "DfuDnloadIdle"}}

(* C11: a DNLOAD with payload handled in a state other than DfuIdle and
   DfuDnloadIdle is rejected, stores nothing into the staging buffer and
   leaves page_buffer_index, the latches, state and status (every field of
   the class) as they were. *)
C11_DnloadRejectedFrame ==
    [][ op'.kind = "DNLOAD" /\ op'.len > 0 /\ dfu.state \in NoDnloadStates =>
          /\ xfer'.res = "reject"
          /\ op'.copied = 0
          /\ dfu' = dfu ]_vars

\* a DNLOAD with payload has been rejected while a full page is pending
C11_Witness ==
    /\ op.kind = "DNLOAD" /\ op.len > 0 /\ xfer.res = "reject"
    /\ dfu.state = "DfuDnloadBusy"
    /\ dfu.awaits_flash /\ dfu.page_buffer_index = page_size

\* the operation that ran last was a request with an unknown request number
UnknownKinds == {"UNKNOWN_IN", "UNKNOWN_OUT"}

(* C12: a class request with an unknown request number, IN or OUT, from any
   state, sets state DfuError and status ErrStaledPkt and is stalled; a
   CLRSTATUS that follows it is accepted and gives DfuIdle with status Ok. *)
C12_UnknownRequest ==
    [][ /\ op'.kind \in UnknownKinds =>
              /\ dfu'.state = "DfuError" /\ dfu'.status = "ErrStaledPkt"
              /\ xfer'.res = "reject"
        /\ op.kind \in UnknownKinds /\ op'.kind = "CLRSTATUS" =>
              /\ xfer'.res = "accept"
              /\ dfu'.state = "DfuIdle" /\ dfu'.status = "Ok" ]_vars

\* an unknown request has been stalled in the middle of a download
C12_Witness ==
    /\ op.kind \in UnknownKinds /\ xfer.res = "reject"
    /\ dfu.state = "DfuError" /\ dfu.status = "ErrStaledPkt"
    /\ dfu.page_buffer_index > 0

\* the control-IN requests addressed to the DFU interface
InKinds == {"GETSTATUS", "GETSTATE", "OTHER_IN", "UNKNOWN_IN"}

(* C13: after a control-IN request to the DFU interface has been handled,
   status # Ok implies state = DfuError; the GET_STATUS handled first after a
   process_flash that failed with ErrWrite replies status ErrWrite, state
   DfuError. *)
C13_ErrorStatusForcesError ==
    [][ /\ op'.kind \in InKinds =>
              (dfu'.status # "Ok" => dfu'.state = "DfuError")
        /\ op.kind = "PROCESS_FLASH" /\ op.failed /\ op'.kind = "GETSTATUS" =>
              /\ xfer'.res = "accept"
              /\ ReplyStatus(xfer') = StatusCode("ErrWrite")
              /\ ReplyState(xfer') = StateCode("DfuError") ]_vars

\* a GET_STATUS has reported the write failure of a staged page
C13_Witness ==
    /\ op.kind = "GETSTATUS" /\ xfer.res = "accept"
    /\ ReplyStatus(xfer) = StatusCode("ErrWrite")
    /\ ReplyState(xfer) = StateCode("DfuError")
    /\ dfu.status = "ErrWrite" /\ dfu.state = "DfuError"

(* C14: write_word makes at most three program-and-verify attempts; it
   returns Ok exactly when the read-back equals the data on one of them (two
   failed verifies and a third that succeeds give Ok) and Err when all three
   verifies fail. *)
C14_WriteWordRetry ==
    call.fn = "write_word" /\ call.done =>
        /\ call.attempts \in 1..3
        /\ call.res = "Ok" <=> \E k \in 1..3 : call.reads[k] = call.data
        /\ call.res = "Err" <=> \A k \in 1..3 : call.reads[k] # call.data
        /\ call.res = "Ok" => call.reads[call.attempts] = call.data

\* write_word has returned Ok on its third attempt
C14_Witness ==
    /\ call.fn = "write_word" /\ call.done
    /\ call.reads[1] # call.data /\ call.reads[2] # call.data
    /\ call.reads[3] = call.data
    /\ call.res = "Ok" /\ call.attempts = 3

\* the BlFlags value read through a reference equals the record, field by field
SameRecord(read, flags) ==
    /\ read.magic = flags.magic
    /\ read.flash_count = flags.flash_count
    /\ read.user_code_legit = BoolByte(flags.user_code_legit)
    /\ read.user_code_present = BoolByte(flags.user_code_present)
    /\ read.user_code_length = flags.user_code_length

(* C15: write_bl_flags of a record with the magic, followed by read_bl_flags
   (as process_flash does for its manifest), returns a record equal to it
   field by field; when neither flags page starts with the magic,
   read_bl_flags returns absent. *)
C15_FlagsRoundTrip ==
    [][ /\ FlashStep("manifest") =>
              /\ written'[1].magic = BL_MAGIC
              /\ dfu'.flags = read_bl_flags(flash')
              /\ dfu'.flags # "None"
              /\ SameRecord(FlagsAt(flash', dfu'.flags, layout), written'[1])
        /\ flash'.hi[1] # BL_MAGIC /\ flash'.lo[1] # BL_MAGIC =>
              read_bl_flags(flash') = "None" ]_vars

\* the erase and program operations of the log, without their details
Ops(log) == [i \in 1..Len(log) |-> << log[i].op, log[i].addr >>]

(* C16: write_bl_flags erases the primary page first; it erases the fallback
   page and programs the record there exactly when, after the primary erase,
   the status register shows WRPRTERR or PGERR or no EOP, and programs it at
   the primary address otherwise; when the primary erase is refused,
   read_bl_flags then returns the record written at the fallback address. *)
C16_FlagsFallback ==
    [][ FlashStep("manifest") =>
          LET e == erase_page(ClearLog(flash), BL_FLAGS_HIGH)
              refused == e.wrprterr \/ e.pgerr \/ ~e.eop
          IN  /\ Ops(flash'.log)[1] = << "erase", BL_FLAGS_HIGH >>
              /\ refused =>
                    /\ Ops(flash'.log) = << << "erase", BL_FLAGS_HIGH >>,
                                            << "erase", BL_FLAGS_LOW >>,
                                            << "prog", BL_FLAGS_LOW >> >>
                    /\ read_bl_flags(flash') = "Low"
                    /\ SameRecord(FlagsAt(flash', "Low", layout), written'[1])
              /\ ~refused =>
                    Ops(flash'.log) = << << "erase", BL_FLAGS_HIGH >>,
                                        << "prog", BL_FLAGS_HIGH >> >> ]_vars

\* the step handles a GET_STATUS while awaits_flash is set and status is Ok
GetStatusWhileAwaiting ==
    op'.kind = "GETSTATUS" /\ dfu.awaits_flash /\ dfu.status = "Ok"

(* C17, as stated: while awaits_flash stays set, successive GET_STATUS report
   DnloadBusy, then DnloadSync, then DnloadIdle. *)
C17_StrictSequence ==
    [][ GetStatusWhileAwaiting =>
          /\ hs' = 1 => ReplyState(xfer') = StateCode("DfuDnloadBusy")
          /\ hs' = 2 => ReplyState(xfer') = StateCode("DfuDnloadSync")
          /\ hs = 2 => ReplyState(xfer') = StateCode("DfuDnloadIdle") ]_vars

(* C17, amended: while awaits_flash stays set, successive GET_STATUS report
   DnloadBusy from DfuDnloadSync and DnloadSync from DfuDnloadBusy, in turn,
   for as long as process_flash has not run; DnloadIdle is not reported while
   awaits_flash is set, and GET_STATUS leaves the latch set. *)
C17_BusySyncAlternation ==
    [][ GetStatusWhileAwaiting =>
          /\ dfu.state = "DfuDnloadSync" =>
                /\ ReplyState(xfer') = StateCode("DfuDnloadBusy")
                /\ dfu'.state = "DfuDnloadBusy"
          /\ dfu.state = "DfuDnloadBusy" =>
                /\ ReplyState(xfer') = StateCode("DfuDnloadSync")
                /\ dfu'.state = "DfuDnloadSync"
          /\ ReplyState(xfer') # StateCode("DfuDnloadIdle")
          /\ dfu'.awaits_flash ]_vars

\* the second GET_STATUS in a row has reported DnloadSync for a pending page
C17_Witness ==
    /\ op.kind = "GETSTATUS" /\ hs = 2
    /\ ReplyState(xfer) = StateCode("DfuDnloadSync")
    /\ dfu.state = "DfuDnloadSync"
    /\ dfu.awaits_flash /\ dfu.page_buffer_index = page_size

(* C18: after a USB bus reset the class is in DfuIdle and the staging buffer
   is discarded: page_buffer_index = 0, awaits_flash and manifesting clear. *)
C18_BusReset ==
    op.kind = "BUS_RESET" =>
        /\ dfu.state = "DfuIdle"
        /\ dfu.page_buffer_index = 0
        /\ ~dfu.awaits_flash
        /\ ~dfu.manifesting

(* C19: an ABORT (wValue = 0, wLength = 0) is accepted only when state is
   DfuIdle, and then leaves state DfuIdle with status Ok; in every other state
   it is rejected and changes neither status, state, the latches nor the
   staging buffer. *)
C19_AbortGating ==
    [][ op'.kind = "ABORT" =>
          /\ xfer'.res = (IF dfu.state = "DfuIdle" THEN "accept" ELSE "reject")
          /\ op'.copied = 0
          /\ xfer'.res = "accept" =>
                /\ dfu'.state = "DfuIdle" /\ dfu'.status = "Ok"
                /\ dfu' = [dfu EXCEPT !.status = "Ok"]
          /\ xfer'.res = "reject" => dfu' = dfu ]_vars

\* an ABORT has been rejected in the middle of a page
C19_Witness ==
    /\ op.kind = "ABORT" /\ xfer.res = "reject"
    /\ dfu.state = "DfuDnloadIdle"
    /\ dfu.page_buffer_index > 0

(* C20: the user_code_length a manifest stores is the number of bytes
   committed in the last session only: a session that begins after a
   completed manifest or after a CLRSTATUS following an error programs its
   first page at PAGE_START, and the manifest it requests records that
   session's bytes. *)
C20_LastSessionOnly ==
    [][ /\ FlashStep("flush") /\ committed = 0 =>
              Ops(flash'.log)[1] = << "erase", PAGE_START >>
        /\ FlashStep("manifest") /\ dfu.state = "DfuManifest" =>
              written'[1].user_code_length = ToWord(committed) ]_vars

\* the five words of the persistent record, a boolean being a whole word
RecordWords(flags) ==
    << flags.magic, flags.flash_count,
       ToWord(BoolByte(flags.user_code_legit)),
       ToWord(BoolByte(flags.user_code_present)),
       flags.user_code_length >>

(* C21: write_bl_flags programs exactly five consecutive words from the flags
   address, in the order magic, flash_count, user_code_legit,
   user_code_present, user_code_length, each boolean a whole word of value 0
   or 1, and programs no word beyond them. *)
C21_PersistentLayout ==
    op.kind = "PROCESS_FLASH" /\ op.branch = "manifest" =>
        LET p == flash.log[Len(flash.log)]
            page == IF p.addr = BL_FLAGS_HIGH THEN flash.hi ELSE flash.lo
            words == RecordWords(written[1])
        IN  /\ p.op = "prog"
            /\ p.n = Len(words)
            /\ ~p.locked =>
                  /\ \A i \in 1..Len(words) : page[i] = words[i]
                  /\ \A i \in (Len(words) + 1)..FLAG_WORDS : page[i] = ERASED

\* the flags page read_bl_flags looks at last: the primary page when it
\* starts with the magic, the fallback page otherwise
PageRead == IF flash.hi[1] = BL_MAGIC THEN flash.hi ELSE flash.lo

(* C22: init hands control to the application if and only if PC14 is low,
   the reset was not a software reset and read_bl_flags returns a record (a
   page starting with the magic) with user_code_present true; in every other
   case the device stays in DFU mode. *)
C22_BootEntry ==
    call.fn = "init" /\ call.done =>
        /\ call.mode \in {"App", "Dfu"}
        /\ call.mode = "App" <=>
              /\ ~call.pc14_high
              /\ ~call.sftrstf
              /\ PageRead[1] = BL_MAGIC
              /\ Deref(PageRead, layout).user_code_present = 1

\* the application has been entered on a record found on the fallback page
C22_Witness ==
    /\ call.fn = "init" /\ call.done /\ call.mode = "App"
    /\ ~call.pc14_high /\ ~call.sftrstf
    /\ flash.hi[1] # BL_MAGIC /\ flash.lo[1] = BL_MAGIC

(* C23: after a zero-length DNLOAD is accepted, every GET_STATUS handled
   while manifesting is set leaves the state DfuManifest with poll-timeout
   500 ms; with process_flash invoked, the host polling and no write failing,
   manifesting is eventually cleared and the state goes DfuManifest ->
   DfuManifestSync -> DfuIdle. *)
C23_ManifestCompletion ==
    /\ [][ op'.kind = "GETSTATUS" /\ dfu.manifesting =>
              /\ dfu'.state = "DfuManifest"
              /\ ReplyPoll(xfer') = POLL_BUSY_MS ]_vars
    /\ dfu.manifesting ~> (~dfu.manifesting \/ dfu.status = "ErrWrite")
    /\ dfu.manifesting ~>
          (dfu.state = "DfuManifestSync" \/ dfu.status = "ErrWrite")
    /\ dfu.state = "DfuManifestSync" ~> dfu.state = "DfuIdle"

\* the operation that ran last was control_in or control_out
ControlKinds ==
    InKinds \cup {"DNLOAD", "CLRSTATUS", "ABORT", "OTHER_OUT", "UNKNOWN_OUT",
                  "FOREIGN"}

(* C24: control_in and control_out never erase or program flash and never
   change firmware_size or the boot-flags record; of the flash they change at
   most the lock (the unlock key sequence), and every erase and every
   programming is made by process_flash. *)
C24_HandlersLeaveFlash ==
    [][ /\ op'.kind \in ControlKinds =>
              /\ flash'.log = << >>
              /\ flash' \in {ClearLog(flash), unlock_flash(ClearLog(flash))}
              /\ dfu'.firmware_size = dfu.firmware_size
              /\ dfu'.flags = dfu.flags
        /\ flash'.log # << >> => op'.kind = "PROCESS_FLASH" ]_vars

\* a DNLOAD has been accepted, and has unlocked the flash again, on a device
\* that has committed an image and its record
C24_Witness ==
    /\ op.kind = "DNLOAD" /\ op.copied > 0 /\ xfer.res = "accept"
    /\ ~flash.locked /\ flash.log = << >>
    /\ dfu.flags # "None" /\ dfu.firmware_size > 0
    /\ manifests > 0

(* C25: process_flash never writes a boot-flags record while status is
   ErrWrite: after a word write has failed in the flush that follows a
   zero-length DNLOAD, no later process_flash commits a record unless the
   host has cleared the error and requested the manifest again. *)
C25_NoRecordAfterWriteError ==
    [][ FlashStep("manifest") =>
          /\ dfu.status # "ErrWrite"
          /\ ~(op.kind = "PROCESS_FLASH" /\ op.failed) ]_vars

(* C26: process_flash never turns a status other than Ok back into Ok; an
   error status is cleared only by a CLRSTATUS or an ABORT the device
   accepts. *)
C26_StatusNotCleared ==
    [][ /\ op'.kind = "PROCESS_FLASH" /\ dfu.status # "Ok" =>
              dfu'.status # "Ok"
        /\ dfu.status # "Ok" /\ dfu'.status = "Ok" =>
              op'.kind \in {"CLRSTATUS", "ABORT"} /\ xfer'.res = "accept" ]_vars

(* C27: whenever process_flash erases a page or programs words, of the
   application or of the boot flags, the flash controller is unlocked: the
   key sequence has been written since the last lock_flash or reset. *)
C27_UnlockedWhenWriting ==
    \A i \in 1..Len(flash.log) : ~flash.log[i].locked

(* C28: every word process_flash programs lies inside the page it erased in
   the same invocation, and the erase destroys no committed image data: the
   erase address PAGE_START + firmware_size is page-aligned relative to
   PAGE_START and the bytes programmed never exceed one page. *)
C28_ProgramsInsideErasedPage ==
    op.kind = "PROCESS_FLASH" /\ op.branch = "flush" =>
        LET e == flash.log[1]
        IN  /\ e.op = "erase"
            /\ (e.addr - PAGE_START) % page_size = 0
            /\ \A i \in 2..Len(flash.log) :
                  LET w == flash.log[i]
                  IN  /\ w.op = "prog"
                      /\ 4 * w.n <= page_size
                      /\ PageBase(w.addr, page_size) = PageBase(e.addr, page_size)
                      /\ PageBase(w.addr + 4 * w.n - 1, page_size)
                            = PageBase(e.addr, page_size)

\* work is pending for process_flash
PendingWork == dfu.awaits_flash \/ dfu.manifesting

(* C29: flashing is false whenever a control request handler or
   process_flash starts (process_flash sets and clears it within one
   invocation on every path, the write-failure path included), so the
   guards on flashing never keep pending work from running, and flashing is
   set only with awaits_flash or manifesting set. *)
C29_FlashingLatch ==
    [][ /\ ~dfu.flashing
        /\ ~dfu'.flashing
        /\ op'.kind = "PROCESS_FLASH" /\ PendingWork => op'.branch # "none"
        /\ op'.kind = "PROCESS_FLASH" /\ op'.branch # "none" => PendingWork ]_vars

\* process_flash has returned through its write-failure path with a manifest
\* still pending
C29_Witness ==
    /\ op.kind = "PROCESS_FLASH" /\ op.branch = "flush" /\ op.failed
    /\ dfu.status = "ErrWrite"
    /\ ~dfu.flashing /\ ~dfu.awaits_flash /\ dfu.manifesting

====
